---- MODULE Spec2Model ----
(***************************************************************************)
(* A model of YouTube_download.py: the command-line pipeline that checks   *)
(* for ffmpeg, resolves the user's input to a list of URLs, and for each   *)
(* URL selects streams, probes a collision-free file name, downloads to    *)
(* temporary files and post-processes them with ffmpeg.                    *)
(*                                                                         *)
(* Text is modelled as sequences of one-character strings, so that         *)
(* str.strip, str.lower, str.startswith, str.endswith, re.sub and the      *)
(* f-string that builds "title_N.ext" are computed character by character. *)
(***************************************************************************)
EXTENDS Integers, Sequences, FiniteSets, TLC

\* ------------------------------------------------------------------ bounds
MaxMid == 1
MaxFileLen == 5
MaxStreams == 2
MaxPre == 2

\* ------------------------------------------------------------ text helpers
RECURSIVE SeqsUpTo(_, _)
SeqsUpTo(S, n) ==
  IF n = 0 THEN {<<>>}
  ELSE LET shorter == SeqsUpTo(S, n - 1)
       IN  shorter \cup {Append(s, c) : s \in {t \in shorter : Len(t) = n - 1}, c \in S}

\* Python's str.isspace for the characters of the model.
IsSpace(c) == c \in {" ", "\t", "\n"}

\* The class \w of Python's re: letters, digits and the underscore.
IsWord(c) ==
  c \in {"a", "h", "p", "t", "u", "v", "x", "H", "P", "T", "X", "Y", "_",
         "0", "1", "2", "3", "4", "5", "6", "7", "8", "9"}

\* str.lower on one character.
LowerChar(c) ==
  CASE c = "H" -> "h"
    [] c = "P" -> "p"
    [] c = "T" -> "t"
    [] c = "X" -> "x"
    [] c = "Y" -> "y"
    [] OTHER -> c

lower(s) == [i \in 1..Len(s) |-> LowerChar(s[i])]

RECURSIVE lstrip(_)
lstrip(s) == IF s # <<>> /\ IsSpace(Head(s)) THEN lstrip(Tail(s)) ELSE s

RECURSIVE rstrip(_)
rstrip(s) ==
  IF s # <<>> /\ IsSpace(s[Len(s)]) THEN rstrip(SubSeq(s, 1, Len(s) - 1)) ELSE s

strip(s) == rstrip(lstrip(s))

startswith(s, prefix) ==
  Len(s) >= Len(prefix) /\ SubSeq(s, 1, Len(prefix)) = prefix

endswith(s, suffix) ==
  Len(s) >= Len(suffix) /\ SubSeq(s, Len(s) - Len(suffix) + 1, Len(s)) = suffix

\* Iterating a text file: the lines of the content, each keeping its "\n".
RECURSIVE FileLines(_, _)
FileLines(content, cur) ==
  IF content = <<>> THEN (IF cur = <<>> THEN <<>> ELSE <<cur>>)
  ELSE IF Head(content) = "\n"
       THEN <<Append(cur, "\n")>> \o FileLines(Tail(content), <<>>)
       ELSE FileLines(Tail(content), Append(cur, Head(content)))

\* ---------------------------------------------------------- process_input
\* What open() finds when the path names no file (it raises FileNotFoundError).
NoFile == <<"ENOENT">>
HttpPrefix == <<"h", "t", "t", "p">>
TxtSuffix == <<".", "t", "x", "t">>

MsgUnknown == "Error: Unknown input format."
MsgEmptyList == "Error: The .txt file does not contain valid URLs."
MsgTraceback == "Traceback (most recent call last)"

\* [line.strip() for line in file if line.strip()]
RECURSIVE StrippedNonEmpty(_)
StrippedNonEmpty(lines) ==
  IF lines = <<>> THEN <<>>
  ELSE LET l == strip(Head(lines))
       IN  (IF l # <<>> THEN <<l>> ELSE <<>>) \o StrippedNonEmpty(Tail(lines))

\* process_input with the two tests in the other order: ".txt" before "http".
process_input_bad_order(input_str, file) ==
  IF endswith(lower(input_str), TxtSuffix)
  THEN IF file = NoFile
       THEN [kind |-> "raise", urls |-> <<>>, msg |-> MsgTraceback, opened |-> TRUE]
       ELSE LET urls == StrippedNonEmpty(FileLines(file, <<>>))
            IN  IF urls = <<>>
                THEN [kind |-> "exit", urls |-> <<>>, msg |-> MsgEmptyList, opened |-> TRUE]
                ELSE [kind |-> "return", urls |-> urls, msg |-> "", opened |-> TRUE]
  ELSE IF startswith(input_str, HttpPrefix)
  THEN [kind |-> "return", urls |-> <<input_str>>, msg |-> "", opened |-> FALSE]
  ELSE [kind |-> "exit", urls |-> <<>>, msg |-> MsgUnknown, opened |-> FALSE]

\* The outcome of process_input(input_str); file is what open(input_str)
\* finds: the content of the file, or NoFile when open raises. kind is
\* "return" (urls is the list returned), "exit" (msg printed, sys.exit(1)) or
\* "raise" (an exception nothing catches); opened tells whether open() ran.
process_input(input_str, file) ==
  IF startswith(input_str, HttpPrefix)
  THEN [kind |-> "return", urls |-> <<input_str>>, msg |-> "", opened |-> FALSE]
  ELSE IF endswith(lower(input_str), TxtSuffix)
  THEN IF file = NoFile
       THEN [kind |-> "raise", urls |-> <<>>, msg |-> MsgTraceback, opened |-> TRUE]
       ELSE LET urls == StrippedNonEmpty(FileLines(file, <<>>))
            IN  IF urls = <<>>
                THEN [kind |-> "exit", urls |-> <<>>, msg |-> MsgEmptyList, opened |-> TRUE]
                ELSE [kind |-> "return", urls |-> urls, msg |-> "", opened |-> TRUE]
  ELSE [kind |-> "exit", urls |-> <<>>, msg |-> MsgUnknown, opened |-> FALSE]

\* ------------------------------------------------- file names and probing
ExtMp4 == ".mp4"
ExtMp3 == ".mp3"

\* re.sub(r"[^\w\s.-]", "", title)
RemoveUnsafe(title) ==
  SelectSeq(title, LAMBDA c : IsWord(c) \/ IsSpace(c) \/ c \in {".", "-"})

\* re.sub(r"\s+", " ", title): every run of whitespace becomes one space.
RECURSIVE CollapseSpaces(_)
CollapseSpaces(s) ==
  IF s = <<>> THEN <<>>
  ELSE IF IsSpace(Head(s))
       THEN <<" ">> \o CollapseSpaces(lstrip(s))
       ELSE <<Head(s)>> \o CollapseSpaces(Tail(s))

Sanitize(title) == CollapseSpaces(RemoveUnsafe(title))

DigitChar(d) ==
  CASE d = 0 -> "0" [] d = 1 -> "1" [] d = 2 -> "2" [] d = 3 -> "3"
    [] d = 4 -> "4" [] d = 5 -> "5" [] d = 6 -> "6" [] d = 7 -> "7"
    [] d = 8 -> "8" [] d = 9 -> "9"

\* str(n) for n >= 0, as the f-string formats the increment.
RECURSIVE Str(_)
Str(n) == IF n < 10 THEN <<DigitChar(n)>> ELSE Append(Str(n \div 10), DigitChar(n % 10))

\* f"{title}.mp4" / f"{title}.mp3"
PlainName(title, ext) == Append(title, ext)

\* f"{title}_{increment}.mp4" / f"{title}_{increment}.mp3"
SuffixedName(title, increment, ext) ==
  Append(title \o <<"_">> \o Str(increment), ext)

\* while os.path.exists(f"{title}_{increment}.ext"): increment += 1
RECURSIVE ProbeIncrement(_, _, _, _)
ProbeIncrement(title, ext, existing, increment) ==
  IF SuffixedName(title, increment, ext) \in existing
  THEN ProbeIncrement(title, ext, existing, increment + 1)
  ELSE increment

\* The file name without any look at the directory.
UniqueNameNoProbe(title, ext, existing) == PlainName(title, ext)

\* The file name with the suffix _1 tried once and not probed further.
UniqueNameNoLoop(title, ext, existing) ==
  IF PlainName(title, ext) \in existing
  THEN SuffixedName(title, 1, ext)
  ELSE PlainName(title, ext)

\* The file name download_youtube_video settles on; existing is the set of
\* names for which os.path.exists is true in the output directory.
UniqueName(title, ext, existing) ==
  IF PlainName(title, ext) \in existing
  THEN SuffixedName(title, ProbeIncrement(title, ext, existing, 1), ext)
  ELSE PlainName(title, ext)

\* -------------------------------------------------------- stream selection
\* A stream descriptor of the extraction library; res = 0 and abr = 0 stand
\* for an attribute that is None.
None == [kind |-> "none", ext |-> "none", res |-> 0, abr |-> 0]

StreamUniverse ==
  { [kind |-> "video", ext |-> "mp4",  res |-> 720,  abr |-> 0],
    [kind |-> "video", ext |-> "mp4",  res |-> 1080, abr |-> 0],
    [kind |-> "video", ext |-> "webm", res |-> 2160, abr |-> 0],
    [kind |-> "audio", ext |-> "mp4",  res |-> 0,    abr |-> 128],
    [kind |-> "audio", ext |-> "webm", res |-> 0,    abr |-> 160],
    [kind |-> "muxed", ext |-> "mp4",  res |-> 360,  abr |-> 96] }

StreamLists == SeqsUpTo(StreamUniverse, MaxStreams)

\* An adaptive stream carries one track only.
IsAdaptive(s) == s.kind \in {"video", "audio"}
IsOnlyAudio(s) == s.kind = "audio"

\* StreamQuery.order_by(attr).desc().first(): the streams whose attribute is
\* not None, the one with the largest value first; None for an empty query.
\* Of equal values the later one in the list comes first.
FirstDesc(streams, attr) ==
  LET has == SelectSeq(streams, LAMBDA s : s[attr] # 0)
  IN  IF has = <<>> THEN None
      ELSE LET best == CHOOSE i \in 1..Len(has) :
                         \A j \in 1..Len(has) :
                           \/ has[j][attr] < has[i][attr]
                           \/ (has[j][attr] = has[i][attr] /\ j <= i)
           IN  has[best]

\* StreamQuery.first()
First(streams) == IF streams = <<>> THEN None ELSE Head(streams)

\* yt.streams.filter(only_audio=True).order_by('abr').desc().first()
SelectBestAudio(streams) ==
  FirstDesc(SelectSeq(streams, IsOnlyAudio), "abr")

\* The video selection without adaptive=True: a muxed mp4 stream qualifies.
SelectVideoFallback(streams) ==
  FirstDesc(SelectSeq(streams, LAMBDA s : s.ext = "mp4"), "res")

\* yt.streams.filter(adaptive=True, file_extension="mp4")
\*    .order_by('resolution').desc().first()
SelectVideo(streams) ==
  FirstDesc(SelectSeq(streams, LAMBDA s : IsAdaptive(s) /\ s.ext = "mp4"), "res")

\* yt.streams.filter(only_audio=True, file_extension="mp4").first()
SelectMuxAudio(streams) ==
  First(SelectSeq(streams, LAMBDA s : IsOnlyAudio(s) /\ s.ext = "mp4"))

\* ------------------------------------------------------------------ state
VARIABLES
  tool,     \* what running "ffmpeg -version" does on this machine
  outdir,   \* the output directory: file name -> what the file holds
  tmpdir,   \* the names of the temporary files that exist
  proc      \* one record per running instance of the script

vars == <<tool, outdir, tmpdir, proc>>

Procs == DOMAIN proc

MsgNoFfmpeg == "Error: FFmpeg not installed."
MsgBanner == "YouTube Video Downloader"
MsgHelp == "Provide a single URL, or a .txt file containing a list of URLs."
MsgPromptInput == "Enter the video URL or path to a .txt file:"
MsgPromptAudio == "Do you want to download only the audio? (y/n):"
MsgMkdir == "Error creating output directory"
MsgNoAudio == "Error: No suitable audio stream found."
MsgNoVideoAudio == "Error: No suitable video or audio stream found."
MsgUnexpected == "Error: An unexpected error occurred. Please check the log for details."
MsgAudioDone == "Audio downloaded successfully"
MsgVideoDone == "Video downloaded successfully"

Info(m) == [level |-> "INFO", msg |-> m]
Error(m) == [level |-> "ERROR", msg |-> m]

\* The open() of process_input has not run.
NotOpened == <<"not opened">>

\* yt.streams has not been fetched, or yt is no longer referenced.
NotFetched == <<[kind |-> "not fetched", ext |-> "none", res |-> 0, abr |-> 0]>>

\* The content of a file the script found in the output directory.
PreExisting == [by |-> 0, url |-> 0, state |-> "full"]

\* The process state when the interpreter reaches the __main__ block.
InitProc ==
  [ pc |-> "check_ffmpeg", exitCode |-> -1, console |-> <<>>, log |-> <<>>,
    user_input |-> <<>>, opened |-> NotOpened, urls_to_process |-> <<>>,
    audio_only |-> FALSE, idx |-> 0, url |-> <<>>,
    streams |-> NotFetched, video_stream |-> None, audio_stream |-> None,
    title |-> <<>>, filename |-> <<>>,
    temp_video_file |-> 0, temp_audio_file |-> 0, ffmpeg_rc |-> "none" ]

\* sys.exit(code) after printing msgs; an uncaught exception ends the same
\* way, with the traceback on the console and status 1.
Exit(r, code, msgs) ==
  [r EXCEPT !.pc = "exited", !.exitCode = code, !.console = @ \o msgs]

\* The handler "except Exception" of download_youtube_video.
Fail(r) ==
  Exit([r EXCEPT !.log = Append(@, Error("An error occurred"))], 1, <<MsgUnexpected>>)

\* The names of the files a directory starts with: X, X_1, ..., with both
\* extensions, for the indices in K.
PreStem == <<"X">>
PreFiles(K) ==
  { IF k = 0 THEN PlainName(PreStem, e) ELSE SuffixedName(PreStem, k, e) :
      k \in K, e \in {ExtMp4, ExtMp3} }

Init ==
  /\ tool \in {"ok", "nonzero", "missing"}
  /\ \E K \in SUBSET (0..MaxPre) : outdir = [n \in PreFiles(K) |-> PreExisting]
  /\ tmpdir = {}
  /\ proc = [p \in {1} |-> InitProc]

\* ------------------------------------------------------------ check_ffmpeg
\* check_ffmpeg returning True from its except clause as well.
check_ffmpeg_swallow(t) ==
  CASE t = "ok" -> "True" [] t = "nonzero" -> "True" [] t = "missing" -> "raise"

\* subprocess.run(..., check=True): True on exit status 0, False when
\* CalledProcessError is caught; a missing binary raises FileNotFoundError,
\* which the function does not catch.
check_ffmpeg(t) ==
  CASE t = "ok" -> "True" [] t = "nonzero" -> "False" [] t = "missing" -> "raise"

CheckFfmpeg(p) ==
  /\ proc[p].pc = "check_ffmpeg"
  /\ LET r == proc[p]
         c == check_ffmpeg(tool)
     IN  proc' = [proc EXCEPT ![p] =
           CASE c = "True" ->
                  [r EXCEPT !.pc = "read_input",
                            !.console = @ \o <<MsgBanner, MsgHelp, MsgPromptInput>>]
             [] c = "False" -> Exit(r, 1, <<MsgNoFfmpeg>>)
             [] c = "raise" -> Exit(r, 1, <<MsgTraceback>>)]
  /\ UNCHANGED <<tool, outdir, tmpdir>>

\* ------------------------------------------------------------- the prompts
\* user_input = sys.stdin.readline().strip(); process_input(user_input)
ReadInput(p, Lines, Files) ==
  /\ proc[p].pc = "read_input"
  /\ \E line \in Lines, file \in Files :
       LET r == [proc[p] EXCEPT !.user_input = strip(line)]
           res == process_input(strip(line), file)
           r2 == [r EXCEPT !.opened = IF res.opened THEN file ELSE NotOpened]
       IN  proc' = [proc EXCEPT ![p] =
             IF res.kind = "return"
             THEN [r2 EXCEPT !.pc = "ask_audio", !.urls_to_process = res.urls]
             ELSE Exit(r2, 1, <<res.msg>>)]
  /\ UNCHANGED <<tool, outdir, tmpdir>>

Answers == { <<"y", "\n">>, <<"n", "\n">>, <<"Y", " ", "\n">>, <<>> }

\* audio_only = sys.stdin.readline().strip().lower() == 'y'
AskAudio(p) ==
  /\ proc[p].pc = "ask_audio"
  /\ \E ans \in Answers :
       proc' = [proc EXCEPT ![p] =
         [@ EXCEPT !.pc = "loop", !.idx = 1,
                   !.console = Append(@, MsgPromptAudio),
                   !.audio_only = (lower(strip(ans)) = <<"y">>)]]
  /\ UNCHANGED <<tool, outdir, tmpdir>>

\* ------------------------------------------------- download_youtube_video
Ext(r) == IF r.audio_only THEN ExtMp3 ELSE ExtMp4

\* for url in urls_to_process: the call of download_youtube_video up to the
\* YouTube object: the start entry of the log, create_output_directory
\* (OSError: message and sys.exit(1), which "except Exception" does not
\* catch) and YouTube(url), which may raise.
BeginDownload(p) ==
  /\ proc[p].pc = "loop"
  /\ proc[p].idx <= Len(proc[p].urls_to_process)
  /\ LET r == [proc[p] EXCEPT
                 !.url = proc[p].urls_to_process[proc[p].idx],
                 !.log = Append(@, Info("Downloading started")),
                 !.streams = NotFetched, !.video_stream = None, !.audio_stream = None,
                 !.title = <<>>, !.filename = <<>>,
                 !.temp_video_file = 0, !.temp_audio_file = 0,
                 !.ffmpeg_rc = "none"]
     IN  \E outcome \in {"ok", "makedirs raises", "YouTube raises"} :
           proc' = [proc EXCEPT ![p] =
             CASE outcome = "ok" -> [r EXCEPT !.pc = "select"]
               [] outcome = "makedirs raises" -> Exit(r, 1, <<MsgMkdir>>)
               [] outcome = "YouTube raises" -> Fail(r)]
  /\ UNCHANGED <<tool, outdir, tmpdir>>

\* The loop of __main__ has no URL left: the script ends normally.
Finish(p) ==
  /\ proc[p].pc = "loop"
  /\ proc[p].idx > Len(proc[p].urls_to_process)
  /\ proc' = [proc EXCEPT ![p] = [@ EXCEPT !.pc = "exited", !.exitCode = 0]]
  /\ UNCHANGED <<tool, outdir, tmpdir>>

\* What the library answers for yt.streams when the platform rejects the URL.
Unavailable == <<[kind |-> "unavailable", ext |-> "none", res |-> 0, abr |-> 0]>>

\* The stream selection of either mode; a stream that is None ends the run
\* with a message and sys.exit(1).
Select(p) ==
  /\ proc[p].pc = "select"
  /\ \E s \in StreamLists \cup {Unavailable} :
       LET r == [proc[p] EXCEPT !.streams = s]
       IN  proc' = [proc EXCEPT ![p] =
             IF s = Unavailable THEN Fail(r)
             ELSE IF r.audio_only
             THEN LET a == SelectBestAudio(s)
                  IN  IF a = None THEN Exit(r, 1, <<MsgNoAudio>>)
                      ELSE [r EXCEPT !.pc = "probe", !.audio_stream = a]
             ELSE LET v == SelectVideo(s)
                      a == SelectMuxAudio(s)
                  IN  IF v = None \/ a = None THEN Exit(r, 1, <<MsgNoVideoAudio>>)
                      ELSE [r EXCEPT !.pc = "probe", !.video_stream = v,
                                     !.audio_stream = a]]
  /\ UNCHANGED <<tool, outdir, tmpdir>>

RawTitles ==
  { <<"X">>, <<"X", "?">>, <<"X", "_", "1">>, <<"X", " ", "\t", "Y", "/">> }

\* The probe creating the file it settles on, so that the name is taken
\* from then on.
ProbeReserving(p) ==
  /\ proc[p].pc = "probe"
  /\ \E raw \in RawTitles :
       LET r == proc[p]
           t == Sanitize(raw)
           name == UniqueName(t, Ext(r), DOMAIN outdir)
       IN  /\ proc' = [proc EXCEPT ![p] =
                [r EXCEPT !.pc = "mktemp", !.title = t, !.filename = name,
                          !.streams = NotFetched,
                          !.log = IF PlainName(t, Ext(r)) \in DOMAIN outdir
                                  THEN Append(@, Info("Filename already exists"))
                                  ELSE @]]
           /\ outdir' = (name :> [by |-> p, url |-> r.idx, state |-> "reserved"]) @@ outdir
  /\ UNCHANGED <<tool, tmpdir>>

\* The title is sanitized and the file name settled by probing the output
\* directory, which the probe only reads; yt is not used after the title is
\* read.
Probe(p) ==
  /\ proc[p].pc = "probe"
  /\ \E raw \in RawTitles :
       LET r == proc[p]
           t == Sanitize(raw)
           name == UniqueName(t, Ext(r), DOMAIN outdir)
       IN  proc' = [proc EXCEPT ![p] =
             [r EXCEPT !.pc = "mktemp", !.title = t, !.filename = name,
                       !.streams = NotFetched,
                       !.log = IF PlainName(t, Ext(r)) \in DOMAIN outdir
                               THEN Append(@, Info("Filename already exists"))
                               ELSE @]]
  /\ UNCHANGED <<tool, outdir, tmpdir>>

\* tempfile.NamedTemporaryFile(delete=False): a name no existing file has.
Fresh(existing) == CHOOSE n \in 1..(Cardinality(existing) + 1) :
                     n \notin existing /\ \A m \in 1..(n - 1) : m \in existing

MkTemp(p) ==
  /\ proc[p].pc = "mktemp"
  /\ LET r == proc[p]
         t1 == Fresh(tmpdir)
         t2 == Fresh(tmpdir \cup {t1})
     IN  IF r.audio_only
         THEN /\ tmpdir' = tmpdir \cup {t1}
              /\ proc' = [proc EXCEPT ![p] =
                   [r EXCEPT !.pc = "download_audio", !.temp_audio_file = t1,
                             !.log = Append(@, Info("Downloading audio"))]]
         ELSE /\ tmpdir' = tmpdir \cup {t1, t2}
              /\ proc' = [proc EXCEPT ![p] =
                   [r EXCEPT !.pc = "download_video", !.temp_video_file = t1,
                             !.temp_audio_file = t2,
                             !.log = Append(@, Info("Downloading video"))]]
  /\ UNCHANGED <<tool, outdir>>

\* video_stream.download(filename=temp_video_file.name)
DownloadVideo(p) ==
  /\ proc[p].pc = "download_video"
  /\ \E ok \in BOOLEAN :
       proc' = [proc EXCEPT ![p] =
         IF ok THEN [@ EXCEPT !.pc = "download_audio"] ELSE Fail(@)]
  /\ UNCHANGED <<tool, outdir, tmpdir>>

\* audio_stream.download(filename=temp_audio_file.name)
DownloadAudio(p) ==
  /\ proc[p].pc = "download_audio"
  /\ \E ok \in BOOLEAN :
       LET r == proc[p]
       IN  proc' = [proc EXCEPT ![p] =
             IF ok THEN [r EXCEPT !.pc = IF r.audio_only THEN "convert" ELSE "merge"]
             ELSE Fail(r)]
  /\ UNCHANGED <<tool, outdir, tmpdir>>

\* ---------------------------------------------------------- post-processing
\* What one run of ffmpeg can do: exit 0 with the output written; exit
\* non-zero with the output untouched or left partial; or never start
\* (subprocess.run raises something other than CalledProcessError). Without
\* -y an existing output is replaced only when the prompt ffmpeg shows on
\* the inherited stdin is answered, and with -y always; the outcomes are the
\* same set either way.
FfmpegOutcomes ==
  { [rc |-> "0", write |-> "full"],
    [rc |-> "1", write |-> "none"],
    [rc |-> "1", write |-> "partial"],
    [rc |-> "raise", write |-> "none"] }

\* The output directory after ffmpeg wrote (or did not write) name.
Written(dir, name, p, idx, write) ==
  IF write = "none" THEN dir
  ELSE (name :> [by |-> p, url |-> idx, state |-> write]) @@ dir

\* The removal placed at the end of the try block instead of in finally.
RemoveTempsOnSuccess(files, rc) == IF rc = "0" THEN files ELSE {}

\* The finally clause: os.remove of every temporary input, whatever ffmpeg
\* did (rc is not consulted).
RemoveTemps(files, rc) == files

\* merge_video_audio(temp_video_file.name, temp_audio_file.name, video_filepath)
MergeVideoAudio(p) ==
  /\ proc[p].pc = "merge"
  /\ \E o \in FfmpegOutcomes :
       LET r == [proc[p] EXCEPT !.ffmpeg_rc = o.rc]
       IN  /\ outdir' = Written(outdir, r.filename, p, r.idx, o.write)
           /\ tmpdir' = tmpdir \ RemoveTemps({r.temp_video_file, r.temp_audio_file}, o.rc)
           /\ proc' = [proc EXCEPT ![p] =
                CASE o.rc = "0" ->
                       [r EXCEPT !.pc = "report",
                                 !.log = @ \o <<Info("FFmpeg stdout output"),
                                                Info("FFmpeg stderr error output"),
                                                Info("Video and audio merged successfully")>>]
                  [] o.rc = "1" ->
                       [r EXCEPT !.pc = "report",
                                 !.log = Append(@, Error("Error merging video and audio"))]
                  [] o.rc = "raise" -> Fail(r)]
  /\ UNCHANGED tool

\* convert_audio_to_mp3(temp_audio_file.name, audio_filepath)
ConvertAudio(p) ==
  /\ proc[p].pc = "convert"
  /\ \E o \in FfmpegOutcomes :
       LET r == [proc[p] EXCEPT !.ffmpeg_rc = o.rc]
       IN  /\ outdir' = Written(outdir, r.filename, p, r.idx, o.write)
           /\ tmpdir' = tmpdir \ RemoveTemps({r.temp_audio_file}, o.rc)
           /\ proc' = [proc EXCEPT ![p] =
                CASE o.rc = "0" ->
                       [r EXCEPT !.pc = "report",
                                 !.log = @ \o <<Info("FFmpeg stdout output"),
                                                Info("FFmpeg stderr error output"),
                                                Info("Audio converted successfully to MP3")>>]
                  [] o.rc = "1" ->
                       [r EXCEPT !.pc = "report",
                                 !.log = Append(@, Error("Error converting audio to MP3"))]
                  [] o.rc = "raise" -> Fail(r)]
  /\ UNCHANGED tool

\* The success path after the post-processor returned: the log entry, the
\* console message, and the return to the loop of __main__.
Report(p) ==
  /\ proc[p].pc = "report"
  /\ LET done == IF proc[p].audio_only THEN MsgAudioDone ELSE MsgVideoDone
     IN  proc' = [proc EXCEPT ![p] =
           [@ EXCEPT !.pc = "loop", !.idx = @ + 1,
                     !.log = Append(@, Info(done)),
                     !.console = Append(@, done)]]
  /\ UNCHANGED <<tool, outdir, tmpdir>>

\* ------------------------------------------------------ the specifications
\* What the user types at the first prompt, and what the named file holds.
MainLines ==
  { <<"h", "t", "t", "p", "a", "\n">>,
    <<"a", ".", "t", "x", "t", "\n">>,
    <<"a", "\n">> }

SpecExampleFile == <<"u", "\n", "\n", " ", " ", "\n", "v", "\n">>

MainFiles == { NoFile, <<"\n", " ", "\n">>, SpecExampleFile }

Next ==
  \/ \E p \in Procs : CheckFfmpeg(p)
  \/ \E p \in Procs : ReadInput(p, MainLines, MainFiles)
  \/ \E p \in Procs : AskAudio(p)
  \/ \E p \in Procs : BeginDownload(p)
  \/ \E p \in Procs : Select(p)
  \/ \E p \in Procs : Probe(p)
  \/ \E p \in Procs : MkTemp(p)
  \/ \E p \in Procs : DownloadVideo(p)
  \/ \E p \in Procs : DownloadAudio(p)
  \/ \E p \in Procs : MergeVideoAudio(p)
  \/ \E p \in Procs : ConvertAudio(p)
  \/ \E p \in Procs : Report(p)
  \/ \E p \in Procs : Finish(p)

\* One run of the script.
Spec == Init /\ [][Next]_vars

\* The input resolver alone: the script stands at its first prompt, and what
\* is typed and what the named file holds are drawn from all short texts.
InputPrefixes == { <<>>, HttpPrefix, <<"H", "t", "t", "p">>, <<" ">> \o HttpPrefix }
InputMiddles == SeqsUpTo({"a"}, MaxMid)
InputSuffixes ==
  { <<>>, TxtSuffix, <<".", "T", "x", "T">>, <<".", "t", "x">>, TxtSuffix \o <<" ">> }

AllLines ==
  { pre \o mid \o suf \o <<"\n">> :
      pre \in InputPrefixes, mid \in InputMiddles, suf \in InputSuffixes }

AllFiles == {NoFile, SpecExampleFile} \cup SeqsUpTo({"u", " ", "\n"}, MaxFileLen)

\* The process state after check_ffmpeg returned True.
AtPrompt == [InitProc EXCEPT !.pc = "read_input",
                             !.console = <<MsgBanner, MsgHelp, MsgPromptInput>>]

InitResolver ==
  /\ tool = "ok"
  /\ outdir = [n \in {} |-> PreExisting]
  /\ tmpdir = {}
  /\ proc = [p \in {1} |-> AtPrompt]

NextResolver == \E p \in Procs : ReadInput(p, AllLines, AllFiles)

SpecResolver == InitResolver /\ [][NextResolver]_vars

\* Two instances of the script started on the same machine, each given one
\* URL; both have selected their streams and are about to read the title.
RaceUrl == <<"h", "t", "t", "p", "a">>
RaceStreams ==
  << [kind |-> "video", ext |-> "mp4", res |-> 720, abr |-> 0],
     [kind |-> "audio", ext |-> "mp4", res |-> 0,   abr |-> 128] >>

AtProbe(audio) ==
  [AtPrompt EXCEPT
     !.pc = "probe", !.console = Append(@, MsgPromptAudio),
     !.log = <<Info("Downloading started")>>,
     !.user_input = RaceUrl, !.urls_to_process = <<RaceUrl>>,
     !.audio_only = audio, !.idx = 1, !.url = RaceUrl,
     !.streams = RaceStreams,
     !.video_stream = IF audio THEN None ELSE SelectVideo(RaceStreams),
     !.audio_stream = IF audio THEN SelectBestAudio(RaceStreams)
                      ELSE SelectMuxAudio(RaceStreams)]

InitRace ==
  /\ tool = "ok"
  /\ \E K \in SUBSET (0..MaxPre) : outdir = [n \in PreFiles(K) |-> PreExisting]
  /\ tmpdir = {}
  /\ \E a1 \in BOOLEAN, a2 \in BOOLEAN :
       proc = [p \in {1, 2} |-> IF p = 1 THEN AtProbe(a1) ELSE AtProbe(a2)]

NextRace ==
  \/ \E p \in Procs : Probe(p)
  \/ \E p \in Procs : MkTemp(p)
  \/ \E p \in Procs : DownloadVideo(p)
  \/ \E p \in Procs : DownloadAudio(p)
  \/ \E p \in Procs : MergeVideoAudio(p)
  \/ \E p \in Procs : ConvertAudio(p)
  \/ \E p \in Procs : Report(p)
  \/ \E p \in Procs : Finish(p)

SpecRace == InitRace /\ [][NextRace]_vars

\* ------------------------------------------------------------- properties
Last(seq) == seq[Len(seq)]

\* C1: once merge_video_audio or convert_audio_to_mp3 has returned or raised,
\* with ffmpeg exiting zero or non-zero or not starting at all, no temporary
\* input path that was passed to it exists any more.
C1_TempInputsRemoved ==
  \A p \in Procs :
    LET r == proc[p]
    IN  r.ffmpeg_rc # "none" =>
          /\ r.temp_audio_file # 0
          /\ r.temp_audio_file \notin tmpdir
          /\ (~r.audio_only => r.temp_video_file # 0 /\ r.temp_video_file \notin tmpdir)

\* merge_video_audio has returned after a non-zero exit of ffmpeg.
C1_Witness ==
  \E p \in Procs :
    /\ proc[p].pc = "report"
    /\ proc[p].ffmpeg_rc = "1"
    /\ ~proc[p].audio_only
    /\ proc[p].temp_video_file # 0

\* C2: after a non-zero exit of ffmpeg the failure reaches the caller, so
\* download_youtube_video is on its success path (about to log and print
\* "downloaded successfully") only when ffmpeg exited with status 0.
C2_TranscodeFailureReachesCaller ==
  \A p \in Procs : proc[p].pc = "report" => proc[p].ffmpeg_rc = "0"

\* C3: when the probe has finished, the chosen name does not exist; it is
\* title.ext when that is free, and otherwise title_k.ext for the smallest
\* k >= 1 whose name is free; with X.mp4 and X_1.mp4 present and X_2.mp4
\* absent the name chosen for the title X is X_2.mp4.
C3_ProbeSmallestFree ==
  \A p \in Procs :
    LET r == proc[p]
        dir == DOMAIN outdir
        plain == r.title \o <<Ext(r)>>
        numbered(k) == r.title \o <<"_">> \o Str(k) \o <<Ext(r)>>
    IN  r.pc = "mktemp" =>
          /\ r.filename \notin dir
          /\ plain \notin dir => r.filename = plain
          /\ plain \in dir =>
               \E k \in 1..(Cardinality(dir) + 1) :
                 /\ r.filename = numbered(k)
                 /\ \A j \in 1..(k - 1) : numbered(j) \in dir
          /\ ( /\ r.title = <<"X">>
               /\ ~r.audio_only
               /\ {<<"X", ".mp4">>, <<"X", "_", "1", ".mp4">>} \subseteq dir
               /\ <<"X", "_", "2", ".mp4">> \notin dir )
             => r.filename = <<"X", "_", "2", ".mp4">>

\* The probe walked past X.mp4 and X_1.mp4 and settled on X_2.mp4.
C3_Witness ==
  \E p \in Procs :
    /\ proc[p].pc = "mktemp"
    /\ {<<"X", ".mp4">>, <<"X", "_", "1", ".mp4">>} \subseteq DOMAIN outdir
    /\ proc[p].filename = <<"X", "_", "2", ".mp4">>

\* C4: no step of a run replaces or removes a file of the output directory:
\* every artifact is written at a name that did not exist, and the files
\* already there keep their content.
C4_NeverOverwritten ==
  [][\A n \in DOMAIN outdir : n \in DOMAIN outdir' /\ outdir'[n] = outdir[n]]_vars

\* Two URLs of one run had titles that sanitize to X, and both artifacts
\* are in the directory under different names.
C4_Witness ==
  \E n1 \in DOMAIN outdir, n2 \in DOMAIN outdir :
    /\ n1 # n2
    /\ outdir[n1].by = 1 /\ outdir[n1].url = 1
    /\ outdir[n2].by = 1 /\ outdir[n2].url = 2
    /\ proc[1].title = <<"X">>
    /\ \E k1 \in 0..(MaxPre + 2), k2 \in 1..(MaxPre + 2) :
         /\ n1 = (IF k1 = 0 THEN <<"X", Ext(proc[1])>>
                  ELSE <<"X", "_">> \o Str(k1) \o <<Ext(proc[1])>>)
         /\ n2 = <<"X", "_">> \o Str(k2) \o <<Ext(proc[1])>>

\* What C5 and C8 say of an input, read off its characters.
StartsHttp(in) ==
  Len(in) >= 4 /\ in[1] = "h" /\ in[2] = "t" /\ in[3] = "t" /\ in[4] = "p"

EndsTxt(in) ==
  LET n == Len(in)
  IN  /\ n >= 4
      /\ in[n - 3] = "."
      /\ in[n - 2] \in {"t", "T"}
      /\ in[n - 1] \in {"x", "X"}
      /\ in[n] \in {"t", "T"}

\* The positions of the lines that hold something other than whitespace.
NonBlank(lines) ==
  {i \in 1..Len(lines) : \E j \in 1..Len(lines[i]) : ~IsSpace(lines[i][j])}

\* A line without the whitespace before its first and after its last
\* character that is not whitespace.
Trimmed(line) ==
  LET solid == {j \in 1..Len(line) : ~IsSpace(line[j])}
      first == CHOOSE j \in solid : \A k \in solid : j <= k
      last == CHOOSE j \in solid : \A k \in solid : k <= j
  IN  SubSeq(line, first, last)

\* C5: process_input returns a non-empty list or fails. An input starting
\* with "http" gives the list of that input alone. Otherwise an input ending
\* in ".txt" in any case gives the trimmed non-blank lines of the file in
\* file order, and fails with exit status 1 and the empty-list message when
\* no line remains. Any other input fails with exit status 1 and the
\* unknown-input message. The file of the example yields u, v.
C5_ProcessInput ==
  \A p \in Procs :
    LET r == proc[p]
        in == r.user_input
        returned == r.pc = "ask_audio"
        failed(msg) == r.pc = "exited" /\ r.exitCode = 1 /\ Last(r.console) = msg
    IN  r.pc \in {"ask_audio", "exited"} =>
          /\ returned => r.urls_to_process # <<>>
          /\ StartsHttp(in) => returned /\ r.urls_to_process = <<in>>
          /\ (~StartsHttp(in) /\ EndsTxt(in) /\ r.opened = NoFile) => ~returned
          /\ (~StartsHttp(in) /\ EndsTxt(in) /\ r.opened # NoFile) =>
               LET lines == FileLines(r.opened, <<>>)
                   kept == NonBlank(lines)
                   nth(k) == CHOOSE i \in kept : Cardinality({j \in kept : j <= i}) = k
               IN  /\ kept = {} => failed(MsgEmptyList)
                   /\ kept # {} =>
                        /\ returned
                        /\ Len(r.urls_to_process) = Cardinality(kept)
                        /\ \A k \in 1..Cardinality(kept) :
                             r.urls_to_process[k] = Trimmed(lines[nth(k)])
                   /\ r.opened = SpecExampleFile =>
                        r.urls_to_process = << <<"u">>, <<"v">> >>
          /\ (~StartsHttp(in) /\ ~EndsTxt(in)) => failed(MsgUnknown)

\* The list file of the example was read and its two URLs returned.
C5_Witness ==
  \E p \in Procs :
    /\ proc[p].pc = "ask_audio"
    /\ proc[p].opened = SpecExampleFile
    /\ proc[p].urls_to_process = << <<"u">>, <<"v">> >>

\* C6: when the processing of a URL has ended, by success or by failure, the
\* temporary files created for it are gone.
C6_TempsDeletedOnEveryPath ==
  \A p \in Procs :
    proc[p].pc \in {"loop", "exited"} =>
      /\ proc[p].temp_video_file \notin tmpdir
      /\ proc[p].temp_audio_file \notin tmpdir

\* The streams of a list lack a video-only mp4 stream or an audio-only mp4
\* stream.
LacksMuxInputs(streams) ==
  \/ ~\E i \in 1..Len(streams) : streams[i].kind = "video" /\ streams[i].ext = "mp4"
  \/ ~\E i \in 1..Len(streams) : streams[i].kind = "audio" /\ streams[i].ext = "mp4"

\* Nothing of the current URL went past stream selection: no temporary
\* file, no download, no ffmpeg run, no file name, no artifact.
NothingFetched(p) ==
  LET r == proc[p]
  IN  /\ r.temp_video_file = 0 /\ r.temp_audio_file = 0
      /\ r.ffmpeg_rc = "none"
      /\ r.filename = <<>>
      /\ Last(r.log) = Info("Downloading started")
      /\ \A n \in DOMAIN outdir : ~(outdir[n].by = p /\ outdir[n].url = r.idx)

\* C7: in video mode, a stream list without a video-only mp4 stream or
\* without an audio-only mp4 stream ends the run at stream selection with
\* the no-stream message and status 1; nothing is fetched or written.
C7_NoStreamNoFallback ==
  \A p \in Procs :
    LET r == proc[p]
    IN  ( /\ ~r.audio_only
          /\ r.streams \notin {NotFetched, Unavailable}
          /\ LacksMuxInputs(r.streams) )
        => /\ r.pc = "exited"
           /\ r.exitCode = 1
           /\ Last(r.console) = MsgNoVideoAudio
           /\ NothingFetched(p)

\* Video mode met a list of muxed streams only and stopped.
C7_Witness ==
  \E p \in Procs :
    /\ ~proc[p].audio_only
    /\ proc[p].streams \notin {NotFetched, Unavailable}
    /\ Len(proc[p].streams) >= 1
    /\ \A i \in 1..Len(proc[p].streams) : proc[p].streams[i].kind = "muxed"
    /\ proc[p].pc = "exited"

\* No URL has been processed by p.
NothingProcessed(p) ==
  LET r == proc[p]
  IN  /\ r.log = <<>> /\ r.idx = 0 /\ r.url = <<>>
      /\ r.streams = NotFetched
      /\ r.temp_video_file = 0 /\ r.temp_audio_file = 0
      /\ tmpdir = {}
      /\ \A n \in DOMAIN outdir : outdir[n].by # p

Window == {"mktemp", "download_video", "download_audio", "merge", "convert"}

\* C9: while two instances given the same sanitized title and the same mode
\* are both between probe and write, they hold the same file name and that
\* name is still free: the probe reserved nothing.
C9_ProbeNotAtomic ==
  \A p \in Procs, q \in Procs :
    ( /\ p # q
      /\ proc[p].pc \in Window /\ proc[q].pc \in Window
      /\ proc[p].title = proc[q].title
      /\ proc[p].audio_only = proc[q].audio_only )
    => /\ proc[p].filename = proc[q].filename
       /\ proc[p].filename \notin DOMAIN outdir

\* Instance p wrote its artifact with ffmpeg exiting 0, and the file of that
\* name now holds what instance q wrote over it.
C9_Witness ==
  \E p \in Procs, q \in Procs :
    /\ p # q
    /\ proc[p].ffmpeg_rc = "0"
    /\ proc[q].ffmpeg_rc # "none"
    /\ proc[p].filename = proc[q].filename
    /\ proc[p].filename \in DOMAIN outdir
    /\ outdir[proc[p].filename].by = q

\* C10: a URL that fails at resolution, at stream selection or at transcode
\* ends the run with an error entry in the log and exit status 1, and no
\* later URL is started.
C10_AbortOnEveryFailure ==
  \A p \in Procs :
    LET r == proc[p]
        aborted == /\ r.pc = "exited" /\ r.exitCode = 1
                   /\ r.log # <<>> /\ Last(r.log).level = "ERROR"
    IN  /\ r.ffmpeg_rc = "1" => aborted
        /\ (r.pc = "exited" /\ r.console # <<>>
              /\ Last(r.console) \in {MsgUnexpected, MsgNoAudio, MsgNoVideoAudio})
           => aborted

====
